---- MODULE Spec2Model ----
(***************************************************************************)
(* go-depcheck: a go/analysis analyzer that checks the imports of a        *)
(* package against dependency rules read from a YAML policy document.      *)
(*                                                                         *)
(* The repository holds several revisions of the analyzer:                 *)
(*   "depcheck"  src/depcheck.go         sync.Once gate, from/to/exceptions*)
(*   "part_001"  src/unnamed/part_001    sync.Once gate, rule ignorePatterns*)
(*   "part_000"  src/unnamed/part_000    sync.OnceValue gate, global and   *)
(*                                       rule ignorePatterns               *)
(* The state variable `variant` says which revision a behaviour runs.      *)
(***************************************************************************)
EXTENDS Integers, Sequences, FiniteSets, TLC

VARIABLES
    variant,                 \* the revision of the analyzer that is running
    envPath,                 \* value of DEPCHECK_CONFIG ("" when unset)
    cwd,                     \* working directory (depth below the root, 0 = root)
    fsFiles,                 \* the file system: path -> content or NoFile
    compiledRules,           \* package variable compiledRules
    compiledIgnorePatterns,  \* package variable compiledIgnorePatterns (part_000)
    onceDone,                \* sync.Once.done
    onceM,                   \* sync.Once.m: the call holding the mutex, 0 when free
    onceValid,               \* sync.OnceValue: valid
    onceP,                   \* sync.OnceValue: p, the recovered panic value
    onceResult,              \* sync.OnceValue: result
    pc,                      \* position of each call of run
    pass,                    \* the *analysis.Pass of each call of run
    initError,               \* run's local initError (depcheck, part_001) / err (part_000)
    config,                  \* prepare's local config
    idx,                     \* prepare's loop position
    ret,                     \* what each call of run returned (or panicked with)
    reports,                 \* the pass.Reportf calls made by each call of run
    rulesRead,               \* the compiledRules value a call iterated over
    prepareCalls,            \* number of times the body of prepare was entered
    crashed,                 \* the process died of an unrecovered panic
    found,                   \* the last call of findConfigFile: its hint and result
    probes,                  \* the paths that call handed to os.Stat, in order
    marked,                  \* the last call of hasExceptionComment: spec and result
    seen                     \* per call: the values of compiledRules it ranged over

vars == <<variant, envPath, cwd, fsFiles, compiledRules, compiledIgnorePatterns,
          onceDone, onceM, onceValid, onceP, onceResult, pc, pass, initError,
          config, idx, ret, reports, rulesRead, prepareCalls, crashed,
          found, probes, marked, seen>>

(***************************************************************************)
(* Bounds of the model.                                                    *)
(***************************************************************************)
NumCalls == 3        \* concurrent calls of run (one per analyzed package)
MaxRules == 2        \* rules in a policy document
MaxTo == 2           \* entries of a rule's to list
MaxExc == 1          \* entries of a rule's exceptions / allowedDependencies list
MaxIgn == 1          \* entries of an ignorePatterns list
MaxImports == 2      \* import specs in a file
MaxDepth == 2        \* depth of the working directory below the root
MaxComments == 2     \* comments in the doc comment group of an import spec

Calls == 1..NumCalls

(***************************************************************************)
(* Sequences helpers.                                                      *)
(***************************************************************************)
SeqsUpTo(S, n) == UNION {[1..k -> S] : k \in 0..n}

RECURSIVE Flatten(_)
Flatten(ss) == IF ss = <<>> THEN <<>> ELSE Head(ss) \o Flatten(Tail(ss))

Exists(s, P(_)) == \E k \in 1..Len(s) : P(s[k])

\* strings.HasPrefix on texts held as sequences of tokens
HasPrefix(s, prefix) ==
    /\ Len(s) >= Len(prefix)
    /\ SubSeq(s, 1, Len(prefix)) = prefix

(***************************************************************************)
(* Regular expressions.  A pattern is the string written in the policy     *)
(* document; Lang gives the strings of the model's universe it matches     *)
(* (unanchored search, as regexp.MatchString does).                        *)
(***************************************************************************)
ImporterPaths == {"app/domain/user", "app/infra/db"}
FileNames == {"user.go", "repo_mock.go", "user_test.go"}

BadPattern == "("        \* regexp syntax error: missing closing )

Lang(p) ==
    CASE p = "^app/domain/.*$"        -> {"app/domain/user"}
      [] p = "^app/infra/.*$"         -> {"app/infra/db", "app/infra/common/logger"}
      [] p = "^app/infra/common.*$"   -> {"app/infra/common/logger"}
      [] p = "infra"                  -> {"app/infra/db", "app/infra/common/logger"}
      [] p = "_mock.go$"              -> {"repo_mock.go"}
      [] p = ".go$"                   -> {"user.go", "repo_mock.go", "user_test.go"}
      [] p = "_test.go$"              -> {"user_test.go"}
      [] OTHER                        -> {}

\* regexp.Compile: a *Regexp or an error
Compile(p) ==
    IF p = BadPattern
    THEN [ok |-> FALSE, re |-> [expr |-> p]]
    ELSE [ok |-> TRUE, re |-> [expr |-> p]]

\* (*Regexp).MatchString
MatchString(re, s) == s \in Lang(re.expr)

(***************************************************************************)
(* Import specs and comments (go/ast).  A comment's text is a sequence of  *)
(* tokens, e.g. <<"//", " ", "depcheck:allow", " ", "legacy">>.            *)
(***************************************************************************)
NilGroup == [isNil |-> TRUE, list |-> <<>>]
Group(list) == [isNil |-> FALSE, list |-> list]

AllowComment == <<"//", " ", "depcheck:allow">>
AllowReason == <<"//", " ", "depcheck:allow", " ", "legacy">>
NoteComment == <<"//", " ", "note">>

Quoted(s) == <<"\"", s, "\"">>

\* strconv.Unquote of an import path literal
Unquote(v) ==
    IF Len(v) = 3 /\ v[1] = "\"" /\ v[3] = "\""
    THEN [ok |-> TRUE, s |-> v[2]]
    ELSE [ok |-> FALSE, s |-> ""]

\* go/ast isDirective: //name:word comments are directives, not text
isDirective(c) == c # <<>> /\ c[1] \in {"depcheck:allow", "go:generate"}

\* one comment of (*ast.CommentGroup).Text: the marker and one leading space
\* are removed, a directive yields no line at all
CommentLine(c) ==
    IF c # <<>> /\ c[1] = "//"
    THEN LET rest == Tail(c) IN
         IF rest = <<>> THEN <<"\n">>
         ELSE IF rest[1] = " " THEN Tail(rest) \o <<"\n">>
         ELSE IF isDirective(rest) THEN <<>>
         ELSE rest \o <<"\n">>
    ELSE c \o <<"\n">>

\* (*ast.CommentGroup).Text
Text(g) ==
    IF g.isNil THEN <<>>
    ELSE Flatten([k \in 1..Len(g.list) |-> CommentLine(g.list[k])])

\* a hasExceptionComment that looks at the first comment of the group only
hasExceptionComment_FirstOnly(v, spec) ==
    IF v = "part_000"
    THEN HasPrefix(Text(spec.comment), <<"depcheck:allow">>)
    ELSE IF spec.doc.isNil \/ spec.doc.list = <<>> THEN FALSE
         ELSE HasPrefix(spec.doc.list[1], AllowComment)

\* hasExceptionComment: depcheck and part_001 look at the doc comment group
\* (the comments above the import), part_000 at the trailing line comment
hasExceptionComment(v, spec) ==
    IF v = "part_000"
    THEN HasPrefix(Text(spec.comment), <<"depcheck:allow">>)
    ELSE IF spec.doc.isNil THEN FALSE
         ELSE Exists(spec.doc.list, LAMBDA c : HasPrefix(c, AllowComment))

(***************************************************************************)
(* Rule evaluation.                                                        *)
(***************************************************************************)
\* filepath.Base of a file name held as its path elements
Base(name) == IF name = <<>> THEN "." ELSE name[Len(name)]

\* isException (depcheck.go)
isException(rule, importPath) ==
    Exists(rule.exceptions, LAMBDA re : MatchString(re, importPath))

\* isAllowed (part_000, part_001)
isAllowed(rule, importPath) ==
    Exists(rule.allowedDependencies, LAMBDA re : MatchString(re, importPath))

\* shouldIgnore (part_001)
shouldIgnore(rule, filename) ==
    Exists(rule.ignorePatterns, LAMBDA re : MatchString(re, filename))

\* a shouldIgnoreFile that forgets the global patterns
shouldIgnoreFile_RuleOnly(filename, globalPatterns, rulePatterns) ==
    Exists(rulePatterns, LAMBDA re : MatchString(re, filename))

\* shouldIgnoreFile (part_000)
shouldIgnoreFile(filename, globalPatterns, rulePatterns) ==
    \/ Exists(globalPatterns, LAMBDA re : MatchString(re, filename))
    \/ Exists(rulePatterns, LAMBDA re : MatchString(re, filename))

\* A pass.Reportf call: the position of the import spec and the path in the
\* message.  rule records which iteration of the rule loop made the call.
Report(f, i, path, r) == [file |-> f, imp |-> i, path |-> path, rule |-> r]

\* a to loop for which a rule without to patterns forbids every import
ToLoop_EmptyMatchesAll(rule, path, f, i, r) ==
    LET hits == SelectSeq(rule.to, LAMBDA re : MatchString(re, path))
    IN  IF rule.to = <<>> THEN <<Report(f, i, path, r)>>
        ELSE [k \in 1..Len(hits) |-> Report(f, i, path, r)]

\* the innermost loop of run: one Reportf per matching to pattern
ToLoop(rule, path, f, i, r) ==
    LET hits == SelectSeq(rule.to, LAMBDA re : MatchString(re, path))
    IN  [k \in 1..Len(hits) |-> Report(f, i, path, r)]

\* a rule loop that tests the to patterns without asking for exceptions
RuleSkips_NoExceptions(v, rule, ignores, pkgpath, filename, path) ==
    IF ~MatchString(rule.from, pkgpath) THEN TRUE
    ELSE CASE v = "depcheck" -> FALSE
           [] v = "part_001" -> shouldIgnore(rule, filename)
           [] v = "part_000" -> shouldIgnoreFile(filename, ignores, rule.ignorePatterns)

\* the `continue` conditions of the rule loop, in the code's order
RuleSkips(v, rule, ignores, pkgpath, filename, path) ==
    IF ~MatchString(rule.from, pkgpath) THEN TRUE
    ELSE CASE v = "depcheck" -> isException(rule, path)
           [] v = "part_001" -> shouldIgnore(rule, filename) \/ isAllowed(rule, path)
           [] v = "part_000" -> \/ shouldIgnoreFile(filename, ignores, rule.ignorePatterns)
                                \/ isAllowed(rule, path)

\* a rule loop in which a file ignored by one rule is ignored by all of them
RuleLoop_IgnoreLeaks(v, rules, ignores, pkgpath, filename, path, f, i) ==
    IF /\ v # "depcheck"
       /\ \E r \in 1..Len(rules) : shouldIgnore(rules[r], filename)
    THEN <<>>
    ELSE Flatten([r \in 1..Len(rules) |->
            IF RuleSkips(v, rules[r], ignores, pkgpath, filename, path)
            THEN <<>>
            ELSE ToLoop(rules[r], path, f, i, r)])

\* a rule loop that ends at the first rule whose from pattern does not
\* match the importer
RuleLoop_FromBreaks(v, rules, ignores, pkgpath, filename, path, f, i) ==
    Flatten([r \in 1..Len(rules) |->
        IF \E q \in 1..r : ~MatchString(rules[q].from, pkgpath) THEN <<>>
        ELSE IF RuleSkips(v, rules[r], ignores, pkgpath, filename, path)
        THEN <<>>
        ELSE ToLoop(rules[r], path, f, i, r)])

\* the body of `for _, rule := range compiledRules`
RuleLoop(v, rules, ignores, pkgpath, filename, path, f, i) ==
    Flatten([r \in 1..Len(rules) |->
        IF RuleSkips(v, rules[r], ignores, pkgpath, filename, path)
        THEN <<>>
        ELSE ToLoop(rules[r], path, f, i, r)])

\* an import loop that leaves the file at the first exempted import
ImportLoop_ExemptionBreaks(v, rules, ignores, pkgpath, file, f) ==
    Flatten([i \in 1..Len(file.imports) |->
        LET spec == file.imports[i]
            u == Unquote(spec.path)
        IN  IF ~u.ok THEN <<>>
            ELSE IF \E j \in 1..i : hasExceptionComment(v, file.imports[j]) THEN <<>>
            ELSE RuleLoop(v, rules, ignores, pkgpath, Base(file.name), u.s, f, i)])

\* the body of `for _, spec := range file.Imports`
ImportLoop(v, rules, ignores, pkgpath, file, f) ==
    Flatten([i \in 1..Len(file.imports) |->
        LET spec == file.imports[i]
            u == Unquote(spec.path)
        IN  IF ~u.ok THEN <<>>
            ELSE IF hasExceptionComment(v, spec) THEN <<>>
            ELSE RuleLoop(v, rules, ignores, pkgpath, Base(file.name), u.s, f, i)])

\* run after the initialization gate: the reports it makes for a pass
runLoop(v, rules, ignores, p) ==
    Flatten([f \in 1..Len(p.files) |->
        ImportLoop(v, rules, ignores, p.pkgpath, p.files[f], f)])

(***************************************************************************)
(* Policy documents, the file system and configuration loading.            *)
(***************************************************************************)
\* Go slices: nil, or a (possibly empty) allocated slice
NilSlice == [isNil |-> TRUE, elems |-> <<>>]
Make == [isNil |-> FALSE, elems |-> <<>>]
AppendSlice(s, x) == [isNil |-> FALSE, elems |-> Append(s.elems, x)]

\* Go error values
NoErr == [kind |-> "nil", detail |-> ""]
Err(kind, detail) == [kind |-> kind, detail |-> detail]

\* a rule as written in the YAML document (all keys any revision or the
\* documentation knows); ignoreTest is false unless the document sets it
RuleDoc(from, to, exc, allowed, ign) ==
    [from |-> from, to |-> to, exceptions |-> exc,
     allowedDependencies |-> allowed, ignorePatterns |-> ign,
     ignoreTest |-> FALSE]

\* the rule with its ignoreTest key set to b
IgnoreTest(r, b) == [r EXCEPT !.ignoreTest = b]

Doc(ign, rules) == [ignorePatterns |-> ign, rules |-> rules]

\* file contents: no file, a file that cannot be read, a file that is not
\* YAML of the expected shape, or a policy document
NoFile == [kind |-> "none", doc |-> Doc(<<>>, <<>>)]
Unreadable == [kind |-> "unreadable", doc |-> Doc(<<>>, <<>>)]
Garbage == [kind |-> "garbage", doc |-> Doc(<<>>, <<>>)]
Yaml(d) == [kind |-> "yaml", doc |-> d]

\* paths are sequences of path elements; the root directory is <<>>
DirAt(d) == [k \in 1..d |-> "w"]
Join(dir, name) == dir \o name
Dir(dir) == IF dir = <<>> THEN <<>> ELSE SubSeq(dir, 1, Len(dir) - 1)
DefaultName == <<"depcheck.yml">>
Override == <<"etc", "depcheck-ci.yml">>
KnownPaths == {Join(DirAt(d), DefaultName) : d \in 0..MaxDepth} \cup {Override}

\* os.Stat(path) succeeds
Stat(files, path) == path \in DOMAIN files /\ files[path].kind # "none"

\* an upward search that keeps walking after a hit and returns the hit
\* closest to the root
RECURSIVE Walk_Farthest(_, _, _, _)
Walk_Farthest(files, dir, configPath, probed) ==
    LET path == Join(dir, configPath)
        rest == Walk_Farthest(files, Dir(dir), configPath, Append(probed, path))
    IN  IF Dir(dir) = dir
        THEN IF Stat(files, path)
             THEN [err |-> NoErr, path |-> path, probes |-> Append(probed, path)]
             ELSE [err |-> Err("not found in any parent directory", configPath[1]),
                   path |-> <<>>, probes |-> Append(probed, path)]
        ELSE IF rest.err = NoErr THEN rest
             ELSE IF Stat(files, path)
                  THEN [err |-> NoErr, path |-> path, probes |-> rest.probes]
                  ELSE rest

\* an upward search that gives up on reaching the root, before testing it
RECURSIVE Walk_StopsBeforeRoot(_, _, _, _)
Walk_StopsBeforeRoot(files, dir, configPath, probed) ==
    LET path == Join(dir, configPath) IN
    IF Dir(dir) = dir /\ probed # <<>>
    THEN [err |-> Err("not found in any parent directory", configPath[1]),
          path |-> <<>>, probes |-> probed]
    ELSE IF Stat(files, path)
         THEN [err |-> NoErr, path |-> path, probes |-> Append(probed, path)]
         ELSE IF Dir(dir) = dir
              THEN [err |-> Err("not found in any parent directory", configPath[1]),
                    path |-> <<>>, probes |-> Append(probed, path)]
              ELSE Walk_StopsBeforeRoot(files, Dir(dir), configPath,
                                        Append(probed, path))

\* the upward search loop of findConfigFile; probes are the paths handed to
\* os.Stat so far
RECURSIVE Walk(_, _, _, _)
Walk(files, dir, configPath, probed) ==
    LET path == Join(dir, configPath) IN
    IF Stat(files, path)
    THEN [err |-> NoErr, path |-> path, probes |-> Append(probed, path)]
    ELSE IF Dir(dir) = dir
         THEN [err |-> Err("not found in any parent directory", configPath[1]),
               path |-> <<>>, probes |-> Append(probed, path)]
         ELSE Walk(files, Dir(dir), configPath, Append(probed, path))

\* a findConfigFile that tests the override for existence
findConfigFile_ChecksOverride(env, wd, files, configPath) ==
    IF env # <<>>
    THEN IF Stat(files, env)
         THEN [err |-> NoErr, path |-> env, probes |-> <<env>>]
         ELSE [err |-> Err("not found in any parent directory", configPath[1]),
               path |-> <<>>, probes |-> <<env>>]
    ELSE Walk(files, wd, configPath, <<>>)

\* findConfigFile
findConfigFile(env, wd, files, configPath) ==
    IF env # <<>>
    THEN [err |-> NoErr, path |-> env, probes |-> <<>>]
    ELSE Walk(files, wd, configPath, <<>>)

\* os.ReadFile
ReadFile(files, path) ==
    IF path \in DOMAIN files /\ files[path].kind \in {"garbage", "yaml"}
    THEN [err |-> NoErr, data |-> files[path]]
    ELSE [err |-> Err("read", ""), data |-> NoFile]

\* yaml.Unmarshal into the revision's Config: keys the struct does not
\* declare are dropped
UnmarshalRule(v, r) ==
    IF v = "depcheck"
    THEN [from |-> r.from, to |-> r.to, exceptions |-> r.exceptions]
    ELSE [from |-> r.from, to |-> r.to,
          allowedDependencies |-> r.allowedDependencies,
          ignorePatterns |-> r.ignorePatterns]

EmptyConfig == [ignorePatterns |-> <<>>, rules |-> <<>>]

Unmarshal(v, data) ==
    IF data.kind # "yaml"
    THEN [err |-> Err("yaml", ""), config |-> EmptyConfig]
    ELSE [err |-> NoErr,
          config |->
            [ignorePatterns |->
                IF v = "part_000" THEN data.doc.ignorePatterns ELSE <<>>,
             rules |-> [k \in 1..Len(data.doc.rules) |->
                            UnmarshalRule(v, data.doc.rules[k])]]]

\* the hint prepare hands to findConfigFile
ConfigPath(env) == IF env # <<>> THEN env ELSE DefaultName

\* a call of findConfigFile(hint) and what it returned
NotCalled == [called |-> FALSE, hint |-> <<>>, err |-> NoErr, path |-> <<>>]
Found(hint, r) == [called |-> TRUE, hint |-> hint, err |-> r.err, path |-> r.path]

\* prepare up to and including yaml.Unmarshal: the error it returns, or the
\* parsed config
LoadConfig(v, env, wd, files) ==
    LET configPath == ConfigPath(env)
        located == findConfigFile(env, wd, files, configPath)
        read == ReadFile(files, located.path)
        parsed == Unmarshal(v, read.data)
    IN  IF located.err # NoErr
        THEN [err |-> Err("could not find config file", located.err.detail),
              config |-> EmptyConfig]
        ELSE IF read.err # NoErr
        THEN [err |-> Err("warning: Could not read config file", ""),
              config |-> EmptyConfig]
        ELSE IF parsed.err # NoErr
        THEN [err |-> Err("warning: Could not parse config file", ""),
              config |-> EmptyConfig]
        ELSE [err |-> NoErr, config |-> parsed.config]

(***************************************************************************)
(* Rule compilation.                                                       *)
(***************************************************************************)
\* the patterns of a rule in the order prepare compiles them
RulePatterns(v, rule) ==
    IF v = "depcheck"
    THEN <<rule.from>> \o rule.to \o rule.exceptions
    ELSE <<rule.from>> \o rule.to \o rule.allowedDependencies \o rule.ignorePatterns

CompileAll(pats) == [k \in 1..Len(pats) |-> Compile(pats[k]).re]

\* the compiledRule built by one iteration of the rule loop
CompiledRule(v, rule) ==
    IF v = "depcheck"
    THEN [from |-> Compile(rule.from).re, to |-> CompileAll(rule.to),
          exceptions |-> CompileAll(rule.exceptions)]
    ELSE [from |-> Compile(rule.from).re, to |-> CompileAll(rule.to),
          allowedDependencies |-> CompileAll(rule.allowedDependencies),
          ignorePatterns |-> CompileAll(rule.ignorePatterns)]

\* regexp.MustCompile panics on the first pattern of the rule that
\* regexp.Compile rejects
MustCompilePanics(v, rule) ==
    Exists(RulePatterns(v, rule), LAMBDA p : ~Compile(p).ok)

FirstBad(v, rule) ==
    LET pats == RulePatterns(v, rule)
        k == CHOOSE j \in 1..Len(pats) :
                /\ ~Compile(pats[j]).ok
                /\ \A i \in 1..(j - 1) : Compile(pats[i]).ok
    IN  pats[k]

(***************************************************************************)
(* The initialization gate and run.                                        *)
(***************************************************************************)
Variants == {"depcheck", "part_001", "part_000"}

NoRet == [kind |-> "none", err |-> NoErr]
RetNil == [kind |-> "nil", err |-> NoErr]
RetErr(e) == [kind |-> "error", err |-> e]
RetPanic(e) == [kind |-> "panic", err |-> e]

\* a gate whose mutex excludes nobody
OnceBlocked_NoMutex == FALSE

\* a call that has reached sync.Once's mutex has to wait while another call
\* holds it
OnceBlocked == onceM # 0

\* the error run tests after the gate: its local initError, which only the
\* closure passed to initOnce.Do assigns (depcheck, part_001), or the result
\* sync.OnceValue cached (part_000)
GateError(c) == IF variant = "part_000" THEN onceResult ELSE initError[c]

\* no call of hasExceptionComment yet
NotMarked == [called |-> FALSE, spec |-> <<>>, result |-> FALSE]

\* run is called with a pass
Call(c, p) ==
    /\ ~crashed
    /\ pc[c] = "start"
    /\ pc' = [pc EXCEPT ![c] = "Do"]
    /\ pass' = [pass EXCEPT ![c] = p]
    /\ UNCHANGED <<found, probes, marked, seen, variant, envPath, cwd,
                   fsFiles, compiledRules,
                   compiledIgnorePatterns, onceDone, onceM, onceValid, onceP,
                   onceResult, initError, config, idx, ret, reports, rulesRead,
                   prepareCalls, crashed>>

\* (*Once).Do: the fast path reads done without the mutex
DoFast(c) ==
    /\ ~crashed
    /\ pc[c] = "Do"
    /\ pc' = [pc EXCEPT ![c] = IF onceDone = 1 THEN "check" ELSE "lock"]
    /\ UNCHANGED <<found, probes, marked, seen, variant, envPath, cwd,
                   fsFiles, compiledRules,
                   compiledIgnorePatterns, onceDone, onceM, onceValid, onceP,
                   onceResult, pass, initError, config, idx, ret, reports,
                   rulesRead, prepareCalls, crashed>>

\* a doSlow that does not test done again once it holds the mutex
DoSlow_NoRecheck(c) ==
    /\ ~crashed
    /\ pc[c] = "lock"
    /\ ~OnceBlocked
    /\ onceM' = c
    /\ pc' = [pc EXCEPT ![c] = "prepare"]
    /\ prepareCalls' = prepareCalls + 1
    /\ UNCHANGED <<found, probes, marked, seen, variant, envPath, cwd,
                   fsFiles, compiledRules,
                   compiledIgnorePatterns, onceDone, onceValid, onceP,
                   onceResult, pass, initError, config, idx, ret, reports,
                   rulesRead, crashed>>

\* (*Once).doSlow: take the mutex; run f if done is still 0, else unlock
DoSlow(c) ==
    /\ ~crashed
    /\ pc[c] = "lock"
    /\ ~OnceBlocked
    /\ IF onceDone = 0
       THEN /\ onceM' = c
            /\ pc' = [pc EXCEPT ![c] = "prepare"]
            /\ prepareCalls' = prepareCalls + 1
       ELSE /\ pc' = [pc EXCEPT ![c] = "check"]
            /\ UNCHANGED <<onceM, prepareCalls>>
    /\ UNCHANGED <<found, probes, marked, seen, variant, envPath, cwd,
                   fsFiles, compiledRules,
                   compiledIgnorePatterns, onceDone, onceValid, onceP,
                   onceResult, pass, initError, config, idx, ret, reports,
                   rulesRead, crashed>>

\* prepare returns e to the gate: the closure stores it (in run's local
\* initError, or in OnceValue's result), done is set and the mutex released
Return(c, e) ==
    /\ onceDone' = 1
    /\ onceM' = 0
    /\ pc' = [pc EXCEPT ![c] = "check"]
    /\ IF variant = "part_000"
       THEN /\ onceResult' = e
            /\ onceValid' = TRUE
            /\ UNCHANGED initError
       ELSE /\ initError' = [initError EXCEPT ![c] = e]
            /\ UNCHANGED <<onceResult, onceValid>>
    /\ UNCHANGED <<onceP, ret>>

\* prepare panics with value e: the deferred calls of the gate set done and
\* release the mutex (OnceValue also keeps the panic value), and the panic
\* leaves run
Panic(c, e) ==
    /\ onceDone' = 1
    /\ onceM' = 0
    /\ pc' = [pc EXCEPT ![c] = "panicked"]
    /\ ret' = [ret EXCEPT ![c] = RetPanic(e)]
    /\ onceP' = IF variant = "part_000" THEN e ELSE onceP
    /\ UNCHANGED <<onceResult, onceValid, initError>>

\* a prepare that allocates its package variable before it looks for the
\* config
PrepareLoad_AllocatesFirst(c) ==
    /\ ~crashed
    /\ pc[c] = "prepare"
    /\ LET f == findConfigFile(envPath, cwd, fsFiles, ConfigPath(envPath)) IN
            /\ found' = Found(ConfigPath(envPath), f)
            /\ probes' = f.probes
    /\ IF variant = "part_000"
       THEN compiledIgnorePatterns' = Make /\ UNCHANGED compiledRules
       ELSE compiledRules' = Make /\ UNCHANGED compiledIgnorePatterns
    /\ LET r == LoadConfig(variant, envPath, cwd, fsFiles) IN
       IF r.err # NoErr
       THEN /\ Return(c, r.err)
            /\ UNCHANGED <<config, idx>>
       ELSE /\ config' = [config EXCEPT ![c] = r.config]
            /\ idx' = [idx EXCEPT ![c] = 1]
            /\ pc' = [pc EXCEPT ![c] =
                    IF variant = "part_000" THEN "compileIgnore" ELSE "compileRules"]
            /\ UNCHANGED <<onceDone, onceM, onceValid, onceP, onceResult,
                           initError, ret>>
    /\ UNCHANGED <<marked, seen, variant, envPath, cwd, fsFiles, pass, reports,
                   rulesRead, prepareCalls, crashed>>

\* prepare: find, read and parse the config; on success allocate the first
\* package variable
PrepareLoad(c) ==
    /\ ~crashed
    /\ pc[c] = "prepare"
    /\ LET f == findConfigFile(envPath, cwd, fsFiles, ConfigPath(envPath)) IN
            /\ found' = Found(ConfigPath(envPath), f)
            /\ probes' = f.probes
    /\ LET r == LoadConfig(variant, envPath, cwd, fsFiles) IN
       IF r.err # NoErr
       THEN /\ Return(c, r.err)
            /\ UNCHANGED <<compiledRules, compiledIgnorePatterns, config, idx>>
       ELSE /\ config' = [config EXCEPT ![c] = r.config]
            /\ idx' = [idx EXCEPT ![c] = 1]
            /\ IF variant = "part_000"
               THEN /\ compiledIgnorePatterns' = Make
                    /\ pc' = [pc EXCEPT ![c] = "compileIgnore"]
                    /\ UNCHANGED compiledRules
               ELSE /\ compiledRules' = Make
                    /\ pc' = [pc EXCEPT ![c] = "compileRules"]
                    /\ UNCHANGED compiledIgnorePatterns
            /\ UNCHANGED <<onceDone, onceM, onceValid, onceP, onceResult,
                           initError, ret>>
    /\ UNCHANGED <<marked, seen, variant, envPath, cwd, fsFiles, pass, reports,
                   rulesRead, prepareCalls, crashed>>

\* prepare (part_000): one iteration of the global ignore pattern loop, or
\* its end, where compiledRules is allocated
CompileIgnore(c) ==
    /\ ~crashed
    /\ pc[c] = "compileIgnore"
    /\ LET pats == config[c].ignorePatterns IN
       IF idx[c] > Len(pats)
       THEN /\ compiledRules' = Make
            /\ idx' = [idx EXCEPT ![c] = 1]
            /\ pc' = [pc EXCEPT ![c] = "compileRules"]
            /\ UNCHANGED <<compiledIgnorePatterns, onceDone, onceM, onceValid,
                           onceP, onceResult, initError, ret>>
       ELSE LET compiled == Compile(pats[idx[c]]) IN
            IF ~compiled.ok
            THEN /\ Return(c, Err("invalid ignore pattern", pats[idx[c]]))
                 /\ UNCHANGED <<compiledRules, compiledIgnorePatterns, idx>>
            ELSE /\ compiledIgnorePatterns' =
                        AppendSlice(compiledIgnorePatterns, compiled.re)
                 /\ idx' = [idx EXCEPT ![c] = idx[c] + 1]
                 /\ UNCHANGED <<compiledRules, pc, onceDone, onceM, onceValid,
                                onceP, onceResult, initError, ret>>
    /\ UNCHANGED <<found, probes, marked, seen, variant, envPath, cwd,
                   fsFiles, pass, config, reports,
                   rulesRead, prepareCalls, crashed>>

\* prepare: one iteration of the rule loop (compile the rule's patterns with
\* regexp.MustCompile and append the compiledRule), or its end (return nil)
CompileRules(c) ==
    /\ ~crashed
    /\ pc[c] = "compileRules"
    /\ LET rules == config[c].rules IN
       IF idx[c] > Len(rules)
       THEN /\ Return(c, NoErr)
            /\ UNCHANGED <<compiledRules, idx>>
       ELSE IF MustCompilePanics(variant, rules[idx[c]])
            THEN /\ Panic(c, Err("regexp: Compile", FirstBad(variant, rules[idx[c]])))
                 /\ UNCHANGED <<compiledRules, idx>>
            ELSE /\ compiledRules' =
                        AppendSlice(compiledRules, CompiledRule(variant, rules[idx[c]]))
                 /\ idx' = [idx EXCEPT ![c] = idx[c] + 1]
                 /\ UNCHANGED <<pc, onceDone, onceM, onceValid, onceP,
                                onceResult, initError, ret>>
    /\ UNCHANGED <<found, probes, marked, seen, variant, envPath, cwd,
                   fsFiles, compiledIgnorePatterns, pass,
                   config, reports, rulesRead, prepareCalls, crashed>>

\* run after the gate: OnceValue re-panics when prepare panicked; then
\* `if err != nil { return nil, err }`
Check(c) ==
    /\ ~crashed
    /\ pc[c] = "check"
    /\ LET e == GateError(c)
       IN  IF variant = "part_000" /\ ~onceValid
           THEN /\ pc' = [pc EXCEPT ![c] = "panicked"]
                /\ ret' = [ret EXCEPT ![c] = RetPanic(onceP)]
                /\ UNCHANGED initError
           ELSE /\ initError' = [initError EXCEPT ![c] = e]
                /\ IF e # NoErr
                   THEN /\ pc' = [pc EXCEPT ![c] = "done"]
                        /\ ret' = [ret EXCEPT ![c] = RetErr(e)]
                   ELSE /\ pc' = [pc EXCEPT ![c] = "eval"]
                        /\ UNCHANGED ret
    /\ UNCHANGED <<found, probes, marked, seen, variant, envPath, cwd,
                   fsFiles, compiledRules,
                   compiledIgnorePatterns, onceDone, onceM, onceValid, onceP,
                   onceResult, pass, config, idx, reports, rulesRead,
                   prepareCalls, crashed>>

\* an evaluation that consumes the package variable: it leaves compiledRules
\* empty once it has applied the rules
Eval_ConsumesRules(c) ==
    /\ ~crashed
    /\ pc[c] = "eval"
    /\ reports' = [reports EXCEPT ![c] =
            runLoop(variant, compiledRules.elems, compiledIgnorePatterns.elems, pass[c])]
    /\ rulesRead' = [rulesRead EXCEPT ![c] = compiledRules]
    /\ compiledRules' = Make
    /\ ret' = [ret EXCEPT ![c] = RetNil]
    /\ pc' = [pc EXCEPT ![c] = "done"]
    /\ UNCHANGED <<found, probes, marked, seen, variant, envPath, cwd, fsFiles,
                   compiledIgnorePatterns, onceDone, onceM, onceValid, onceP,
                   onceResult, pass, initError, config, idx, prepareCalls,
                   crashed>>

\* run: the loops over the files, imports and compiledRules; return nil, nil
Eval(c) ==
    /\ ~crashed
    /\ pc[c] = "eval"
    /\ reports' = [reports EXCEPT ![c] =
            runLoop(variant, compiledRules.elems, compiledIgnorePatterns.elems, pass[c])]
    /\ rulesRead' = [rulesRead EXCEPT ![c] = compiledRules]
    /\ ret' = [ret EXCEPT ![c] = RetNil]
    /\ pc' = [pc EXCEPT ![c] = "done"]
    /\ UNCHANGED <<found, probes, marked, seen, variant, envPath, cwd,
                   fsFiles, compiledRules,
                   compiledIgnorePatterns, onceDone, onceM, onceValid, onceP,
                   onceResult, pass, initError, config, idx, prepareCalls,
                   crashed>>

\* a panic that left run and that the host does not recover ends the process
Crash ==
    /\ ~crashed
    /\ \E c \in Calls : pc[c] = "panicked"
    /\ crashed' = TRUE
    /\ UNCHANGED <<found, probes, marked, seen, variant, envPath, cwd,
                   fsFiles, compiledRules,
                   compiledIgnorePatterns, onceDone, onceM, onceValid, onceP,
                   onceResult, pc, pass, initError, config, idx, ret, reports,
                   rulesRead, prepareCalls>>

(***************************************************************************)
(* Inputs of the model.                                                    *)
(***************************************************************************)
File(base, imports) == [name |-> <<"app", base>>, imports |-> imports]
Import(path, doc, comment) == [path |-> Quoted(path), doc |-> doc, comment |-> comment]
Pass(pkgpath, files) == [pkgpath |-> pkgpath, files |-> files]
NoPass == Pass("", <<>>)

GoodRule ==
    RuleDoc("^app/domain/.*$", <<"^app/infra/.*$">>, <<>>, <<>>, <<>>)

\* the rules of the documents the gate is exercised with: a well-formed rule
\* and rules with a malformed pattern in each position
GateRules ==
    { GoodRule,
      [GoodRule EXCEPT !.from = BadPattern],
      [GoodRule EXCEPT !.to = <<"^app/infra/.*$", BadPattern>>],
      [GoodRule EXCEPT !.exceptions = <<BadPattern>>],
      [GoodRule EXCEPT !.allowedDependencies = <<BadPattern>>],
      [GoodRule EXCEPT !.ignorePatterns = <<BadPattern>>] }

GateDocs ==
    { Doc(ign, rules) :
        ign \in {<<>>, <<"_mock.go$">>, <<"_mock.go$", BadPattern>>},
        rules \in SeqsUpTo(GateRules, MaxRules) }

GatePasses ==
    { Pass("app/domain/user",
           <<File("user.go", <<Import("app/infra/db", NilGroup, NilGroup)>>)>>) }

\* file systems: nothing anywhere, or one file (unreadable, not YAML, or a
\* policy document) in one place
FileSystems ==
    { [q \in KnownPaths |-> NoFile] }
    \cup { [q \in KnownPaths |-> IF q = at THEN content ELSE NoFile] :
            at \in KnownPaths,
            content \in {Unreadable, Garbage, Yaml(Doc(<<>>, <<GoodRule>>))} }

InitProcess ==
    /\ compiledRules = NilSlice
    /\ compiledIgnorePatterns = NilSlice
    /\ onceDone = 0
    /\ onceM = 0
    /\ onceValid = FALSE
    /\ onceP = NoErr
    /\ onceResult = NoErr
    /\ pc = [c \in Calls |-> "start"]
    /\ pass = [c \in Calls |-> NoPass]
    /\ initError = [c \in Calls |-> NoErr]
    /\ config = [c \in Calls |-> EmptyConfig]
    /\ idx = [c \in Calls |-> 0]
    /\ ret = [c \in Calls |-> NoRet]
    /\ reports = [c \in Calls |-> <<>>]
    /\ rulesRead = [c \in Calls |-> NilSlice]
    /\ prepareCalls = 0
    /\ crashed = FALSE
    /\ found = NotCalled
    /\ probes = <<>>
    /\ marked = NotMarked
    /\ seen = [c \in Calls |-> <<>>]

\* the process starts in some directory with some file system, or in the
\* directory that holds a policy document
Init ==
    /\ variant \in Variants
    /\ \/ /\ envPath \in {<<>>, Override}
          /\ cwd = DirAt(MaxDepth)
          /\ fsFiles \in FileSystems
       \/ /\ envPath = <<>>
          /\ cwd = DirAt(MaxDepth)
          /\ \E d \in GateDocs :
                fsFiles = [q \in KnownPaths |->
                    IF q = Join(DirAt(MaxDepth), DefaultName) THEN Yaml(d) ELSE NoFile]
    /\ InitProcess

Next ==
    \/ \E c \in Calls, p \in GatePasses : Call(c, p)
    \/ \E c \in Calls : DoFast(c)
    \/ \E c \in Calls : DoSlow(c)
    \/ \E c \in Calls : PrepareLoad(c)
    \/ \E c \in Calls : CompileIgnore(c)
    \/ \E c \in Calls : CompileRules(c)
    \/ \E c \in Calls : Check(c)
    \/ \E c \in Calls : Eval(c)
    \/ Crash

Spec == Init /\ [][Next]_vars

(***************************************************************************)
(* Properties of the initialization gate.                                  *)
(***************************************************************************)
InPrepare(c) == pc[c] \in {"prepare", "compileIgnore", "compileRules"}
Returned(c) == pc[c] = "done"
Evaluated(c) == pc[c] = "done" /\ ret[c] = RetNil

\* what prepare makes of the file system the process runs in
Loaded == LoadConfig(variant, envPath, cwd, fsFiles)

\* the policy document has a malformed pattern in some rule
MalformedRule ==
    /\ Loaded.err = NoErr
    /\ Exists(Loaded.config.rules, LAMBDA r : MustCompilePanics(variant, r))

\* C1: in depcheck.go, when prepare fails with a config-not-found, read or
\* parse error, every call of run that gets past the gate returns that error
\* and none goes on to evaluate imports.
C1_FailureReplayed ==
    variant = "depcheck" /\ Loaded.err # NoErr =>
        \A c \in Calls :
            /\ pc[c] # "eval"
            /\ Returned(c) => ret[c] = RetErr(Loaded.err)

\* C2: in depcheck.go the body of prepare is entered at most once, and it
\* has been entered once as soon as some call of run has ended.
C2_PrepareOnce ==
    variant = "depcheck" =>
        /\ prepareCalls <= 1
        /\ (\E c \in Calls : pc[c] \in {"check", "eval", "done", "panicked"})
                => prepareCalls = 1

\* all calls are over, prepare failed for the one that ran it
C2_Witness ==
    /\ variant = "depcheck"
    /\ \A c \in Calls : Returned(c)
    /\ \E c \in Calls : ret[c].kind = "error"
    /\ prepareCalls = 1

\* C3: in depcheck.go a call iterates over compiledRules only when the one
\* execution of prepare is over: nobody is inside prepare, the gate is done
\* and free, and the rules the call read are the rules as they stay.
C3_EvalAfterPrepare ==
    variant = "depcheck" =>
        \A c \in Calls :
            /\ pc[c] = "eval" =>
                    /\ onceDone = 1
                    /\ \A d \in Calls : ~InPrepare(d)
            /\ Evaluated(c) => rulesRead[c] = compiledRules

\* a call that did not run prepare is about to iterate over the rules that
\* another call compiled
C3_Witness ==
    /\ variant = "depcheck"
    /\ \E c, d \in Calls :
        /\ pc[c] = "eval" /\ idx[c] = 0
        /\ idx[d] > MaxRules
        /\ Len(compiledRules.elems) = MaxRules

\* C4: in depcheck.go, when some rule of the policy document has a malformed
\* pattern, no call of run evaluates imports.
C4_NoPartialRuleSet ==
    variant = "depcheck" /\ MalformedRule =>
        \A c \in Calls : pc[c] # "eval" /\ ~Evaluated(c)

\* C5: in part_000 compilation never ends in a panic: a malformed pattern
\* makes run return an error.
C5_NoPanic ==
    variant = "part_000" =>
        \A c \in Calls : pc[c] # "panicked" /\ ret[c].kind # "panic"

(***************************************************************************)
(* Rule evaluation on its own: a process whose gate has been passed        *)
(* successfully, with the compiled state prepare built from a well-formed  *)
(* policy document, runs the analyzer on a package.                        *)
(***************************************************************************)
FromPats == {"^app/domain/.*$", "^app/infra/.*$"}
ToPats == {"^app/infra/.*$", "^app/infra/common.*$"}
ExcPats == {"^app/infra/common.*$"}
IgnPats == {"_mock.go$"}

\* the rules a revision can be configured with
EvalRules(v) ==
    IF v = "depcheck"
    THEN { IgnoreTest(RuleDoc(from, to, exc, <<>>, <<>>), b) :
            from \in FromPats, to \in SeqsUpTo(ToPats, MaxTo),
            exc \in SeqsUpTo(ExcPats, MaxExc), b \in BOOLEAN }
    ELSE { RuleDoc(from, to, <<>>, allowed, ign) :
            from \in FromPats, to \in SeqsUpTo(ToPats, MaxTo),
            allowed \in SeqsUpTo(ExcPats, MaxExc),
            ign \in SeqsUpTo(IgnPats, MaxIgn) }

EvalDocs(v) ==
    { Doc(ign, rules) :
        ign \in (IF v = "part_000" THEN SeqsUpTo(IgnPats, MaxIgn) ELSE {<<>>}),
        rules \in SeqsUpTo(EvalRules(v), MaxRules) }

\* import specs: plain, with the marker in the doc comment above the import,
\* with the marker in the trailing comment of the import's line
EvalImports ==
    { Import("app/infra/db", NilGroup, NilGroup),
      Import("app/infra/common/logger", NilGroup, NilGroup),
      Import("app/infra/db", Group(<<AllowReason>>), NilGroup),
      Import("app/infra/db", NilGroup, Group(<<AllowComment>>)) }

EvalPasses ==
    { Pass(pkgpath, <<File(base, imports)>>) :
        pkgpath \in ImporterPaths,
        base \in FileNames,
        imports \in SeqsUpTo(EvalImports, MaxImports) }

\* the compiled state prepare leaves behind for a well-formed config
CompiledState(v, cfg) ==
    [rules |-> [isNil |-> FALSE,
                elems |-> [k \in 1..Len(cfg.rules) |-> CompiledRule(v, cfg.rules[k])]],
     ignores |-> IF v = "part_000"
                 THEN [isNil |-> FALSE, elems |-> CompileAll(cfg.ignorePatterns)]
                 ELSE NilSlice]

InitEval ==
    /\ variant \in Variants
    /\ envPath = <<>>
    /\ cwd = DirAt(MaxDepth)
    /\ \E d \in EvalDocs(variant) :
        /\ fsFiles = [q \in KnownPaths |->
                IF q = Join(DirAt(MaxDepth), DefaultName) THEN Yaml(d) ELSE NoFile]
        /\ LET st == CompiledState(variant, Unmarshal(variant, Yaml(d)).config) IN
            /\ compiledRules = st.rules
            /\ compiledIgnorePatterns = st.ignores
    /\ onceDone = 1
    /\ onceM = 0
    /\ onceValid = (variant = "part_000")
    /\ onceP = NoErr
    /\ onceResult = NoErr
    /\ pc = [c \in Calls |-> "start"]
    /\ pass = [c \in Calls |-> NoPass]
    /\ initError = [c \in Calls |-> NoErr]
    /\ config = [c \in Calls |-> EmptyConfig]
    /\ idx = [c \in Calls |-> 0]
    /\ ret = [c \in Calls |-> NoRet]
    /\ reports = [c \in Calls |-> <<>>]
    /\ rulesRead = [c \in Calls |-> NilSlice]
    /\ prepareCalls = 1
    /\ crashed = FALSE
    /\ found = Found(DefaultName, findConfigFile(envPath, cwd, fsFiles, DefaultName))
    /\ probes = findConfigFile(envPath, cwd, fsFiles, DefaultName).probes
    /\ marked = NotMarked
    /\ seen = [c \in Calls |-> <<>>]

\* a whole call of run once the gate is done: the fast path of Do, the nil
\* error, the loops, return nil, nil
RunReady(c, p) ==
    /\ ~crashed
    /\ pc[c] = "start"
    /\ onceDone = 1
    /\ GateError(c) = NoErr
    /\ variant = "part_000" => onceValid
    /\ pass' = [pass EXCEPT ![c] = p]
    /\ reports' = [reports EXCEPT ![c] =
            runLoop(variant, compiledRules.elems, compiledIgnorePatterns.elems, p)]
    /\ rulesRead' = [rulesRead EXCEPT ![c] = compiledRules]
    /\ ret' = [ret EXCEPT ![c] = RetNil]
    /\ pc' = [pc EXCEPT ![c] = "done"]
    /\ UNCHANGED <<found, probes, marked, seen, variant, envPath, cwd,
                   fsFiles, compiledRules,
                   compiledIgnorePatterns, onceDone, onceM, onceValid, onceP,
                   onceResult, initError, config, idx, prepareCalls, crashed>>

NextEval == \E p \in EvalPasses : RunReady(1, p)

EvalSpec == InitEval /\ [][NextEval]_vars

(***************************************************************************)
(* Properties of rule evaluation.  They speak of call 1 once it has        *)
(* returned.                                                               *)
(***************************************************************************)
Rules == compiledRules.elems
Ignores == compiledIgnorePatterns.elems
TheFile(f) == pass[1].files[f]
TheImport(f, i) == pass[1].files[f].imports[i]
ImportPath(f, i) == Unquote(TheImport(f, i).path).s
ImportsOf(f) == 1..Len(pass[1].files[f].imports)
FilesOf == 1..Len(pass[1].files)

\* the reports call 1 made for import i of file f
ReportsFor(f, i) ==
    SelectSeq(reports[1], LAMBDA r : r.file = f /\ r.imp = i)

\* the rule loop iterations behind a sequence of reports
RulesOf(rs) == [k \in 1..Len(rs) |-> rs[k].rule]

Exempt(f, i) == hasExceptionComment(variant, TheImport(f, i))

MatchesAny(res, str) == \E k \in 1..Len(res) : str \in Lang(res[k].expr)

ExceptionsOf(rule) ==
    IF variant = "depcheck" THEN rule.exceptions ELSE rule.allowedDependencies

RuleIgnoresOf(rule) ==
    IF variant = "depcheck" THEN <<>> ELSE rule.ignorePatterns

\* the pass reduced to import i of file f
Single(f, i) ==
    Pass(pass[1].pkgpath,
         <<[name |-> TheFile(f).name, imports |-> <<TheImport(f, i)>>]>>)

\* rule r is violated by import i of file f, as the documentation defines it
Violates(r, f, i) ==
    /\ pass[1].pkgpath \in Lang(Rules[r].from.expr)
    /\ ~MatchesAny(Ignores, Base(TheFile(f).name))
    /\ ~MatchesAny(RuleIgnoresOf(Rules[r]), Base(TheFile(f).name))
    /\ ~MatchesAny(ExceptionsOf(Rules[r]), ImportPath(f, i))
    /\ MatchesAny(Rules[r].to, ImportPath(f, i))

\* C6: an import with the exemption marker is never reported, and the other
\* imports of the file get the reports they would get on their own.
C6_ExemptImportAllowed ==
    Returned(1) =>
        \A f \in FilesOf : \A i \in ImportsOf(f) :
            IF Exempt(f, i)
            THEN ReportsFor(f, i) = <<>>
            ELSE RulesOf(ReportsFor(f, i)) =
                 RulesOf(runLoop(variant, Rules, Ignores, Single(f, i)))

\* an exempted import that violates a rule, followed in the same file by an
\* import that is reported
C6_Witness ==
    /\ Returned(1)
    /\ \E f \in FilesOf : \E i, j \in ImportsOf(f) :
        /\ i < j
        /\ Exempt(f, i)
        /\ \E r \in 1..Len(Rules) : Violates(r, f, i)
        /\ ReportsFor(f, i) = <<>>
        /\ ReportsFor(f, j) # <<>>

\* C7: in part_000 nothing is reported for a file whose base name matches a
\* global ignore pattern.
C7_GlobalIgnoreAllowed ==
    variant = "part_000" /\ Returned(1) =>
        \A f \in FilesOf :
            MatchesAny(Ignores, Base(TheFile(f).name)) =>
                \A i \in ImportsOf(f) : ReportsFor(f, i) = <<>>

\* a globally ignored file with an import that the rules, without the global
\* patterns, report
C7_Witness ==
    /\ variant = "part_000"
    /\ Returned(1)
    /\ \E f \in FilesOf :
        /\ MatchesAny(Ignores, Base(TheFile(f).name))
        /\ runLoop(variant, Rules, <<>>, pass[1]) # <<>>
    /\ reports[1] = <<>>

\* C8: no rule is reported for an import path that matches one of the rule's
\* exceptions / allowedDependencies patterns.
C8_ExceptionsDominate ==
    Returned(1) =>
        \A k \in 1..Len(reports[1]) :
            ~MatchesAny(ExceptionsOf(Rules[reports[1][k].rule]), reports[1][k].path)

\* a rule that applies to the package and the file, whose to patterns and
\* whose exceptions both match a checked import
C8_Witness ==
    /\ Returned(1)
    /\ \E f \in FilesOf : \E i \in ImportsOf(f) : \E r \in 1..Len(Rules) :
        /\ ~Exempt(f, i)
        /\ pass[1].pkgpath \in Lang(Rules[r].from.expr)
        /\ ~MatchesAny(Ignores, Base(TheFile(f).name))
        /\ ~MatchesAny(RuleIgnoresOf(Rules[r]), Base(TheFile(f).name))
        /\ MatchesAny(Rules[r].to, ImportPath(f, i))
        /\ MatchesAny(ExceptionsOf(Rules[r]), ImportPath(f, i))
        /\ \A k \in 1..Len(ReportsFor(f, i)) : ReportsFor(f, i)[k].rule # r

\* the file is ignored by rule a, by no pattern of rule b and by no global
\* pattern, and import i violates rule b
IgnoredByOneRule(a, b, f, i) ==
    /\ a # b
    /\ ~Exempt(f, i)
    /\ MatchesAny(RuleIgnoresOf(Rules[a]), Base(TheFile(f).name))
    /\ Violates(b, f, i)

\* C9: in part_000 and part_001 a rule's ignorePatterns exclude a file from
\* that rule only: a violation of another rule in the file is still reported
\* for that rule, and nothing is reported for the ignoring rule.
C9_RuleIgnoreIsLocal ==
    variant \in {"part_000", "part_001"} /\ Returned(1) =>
        \A f \in FilesOf : \A i \in ImportsOf(f) : \A a, b \in 1..Len(Rules) :
            IgnoredByOneRule(a, b, f, i) =>
                /\ \E k \in 1..Len(ReportsFor(f, i)) : ReportsFor(f, i)[k].rule = b
                /\ \A k \in 1..Len(ReportsFor(f, i)) : ReportsFor(f, i)[k].rule # a

\* rule a ignores the file and would otherwise be violated, rule b is
\* violated and reported
C9_Witness ==
    /\ variant \in {"part_000", "part_001"}
    /\ Returned(1)
    /\ \E f \in FilesOf : \E i \in ImportsOf(f) : \E a, b \in 1..Len(Rules) :
        /\ IgnoredByOneRule(a, b, f, i)
        /\ pass[1].pkgpath \in Lang(Rules[a].from.expr)
        /\ MatchesAny(Rules[a].to, ImportPath(f, i))
        /\ ~MatchesAny(ExceptionsOf(Rules[a]), ImportPath(f, i))
        /\ RulesOf(ReportsFor(f, i)) # <<>>

\* C10: the number of reports for a checked import is the number of rules it
\* violates.
C10_OneReportPerRule ==
    Returned(1) =>
        \A f \in FilesOf : \A i \in ImportsOf(f) :
            ~Exempt(f, i) =>
                Len(ReportsFor(f, i)) =
                    Cardinality({r \in 1..Len(Rules) : Violates(r, f, i)})

(***************************************************************************)
(* The documented forms of the exemption marker.                           *)
(***************************************************************************)
\* the import is written `import "path" // depcheck:allow`: the marker is
\* the line comment that follows the import on its line
InlineMarked(spec) ==
    /\ ~spec.comment.isNil
    /\ Exists(spec.comment.list, LAMBDA c : HasPrefix(c, AllowComment))

\* C11: in depcheck.go an import written with the marker as a trailing
\* comment on its line is exempt: run makes no report for it.
C11_InlineFormExempt ==
    variant = "depcheck" /\ Returned(1) =>
        \A f \in FilesOf : \A i \in ImportsOf(f) :
            InlineMarked(TheImport(f, i)) => ReportsFor(f, i) = <<>>

(***************************************************************************)
(* Test files (the documented ignoreTest key).                             *)
(***************************************************************************)
\* the policy document the process was started with
TheDoc == fsFiles[Join(cwd, DefaultName)].doc

\* the file's name ends with _test.go
IsTestFile(f) == Base(TheFile(f).name) \in Lang("_test.go$")

\* C12: in depcheck.go a rule with ignoreTest: true is not reported for
\* imports of files whose name ends with _test.go.
C12_IgnoreTestSkipsTestFiles ==
    variant = "depcheck" /\ Returned(1) =>
        \A k \in 1..Len(reports[1]) :
            IsTestFile(reports[1][k].file) =>
                ~TheDoc.rules[reports[1][k].rule].ignoreTest

(***************************************************************************)
(* The config search on its own: findConfigFile called with any hint, in   *)
(* any working directory, over file systems that hold config files in any  *)
(* of the directories; and the first call of run, up to the point where    *)
(* prepare has found, read and parsed the config.                          *)
(***************************************************************************)
AltName == <<"rules.yml">>
Hints == {DefaultName, AltName}
FindPaths == {Join(DirAt(d), h) : d \in 0..MaxDepth, h \in Hints} \cup {Override}
FindFileSystems == [FindPaths -> {NoFile, Yaml(Doc(<<>>, <<GoodRule>>))}]

\* findConfigFile(h) is called directly
FindConfig(h) ==
    /\ ~crashed
    /\ ~found.called
    /\ pc[1] = "start"
    /\ LET f == findConfigFile(envPath, cwd, fsFiles, h) IN
        /\ found' = Found(h, f)
        /\ probes' = f.probes
    /\ UNCHANGED <<marked, seen, variant, envPath, cwd, fsFiles, compiledRules,
                   compiledIgnorePatterns, onceDone, onceM, onceValid, onceP,
                   onceResult, pc, pass, initError, config, idx, ret, reports,
                   rulesRead, prepareCalls, crashed>>

InitFind ==
    /\ variant \in Variants
    /\ envPath \in {<<>>, Override}
    /\ cwd \in {DirAt(d) : d \in 0..MaxDepth}
    /\ fsFiles \in FindFileSystems
    /\ InitProcess

NextFind ==
    \/ \E h \in Hints : FindConfig(h)
    \/ \E p \in GatePasses : Call(1, p)
    \/ DoFast(1)
    \/ DoSlow(1)
    \/ PrepareLoad(1)

FindSpec == InitFind /\ [][NextFind]_vars

\* the chain working directory, parent, grandparent, ..., root
Chain(wd) == [k \in 1..Len(wd) + 1 |-> SubSeq(wd, 1, Len(wd) + 1 - k)]

\* C13: with DEPCHECK_CONFIG set, findConfigFile returns the override
\* without error and without handing any path to os.Stat, for every hint
\* and working directory; when no file is at that path, prepare fails with
\* the read error
C13_OverrideVerbatim ==
    /\ found.called /\ envPath # <<>> =>
            found.path = envPath /\ found.err = NoErr /\ probes = <<>>
    /\ pc[1] = "check" /\ envPath # <<>> /\ ~Stat(fsFiles, envPath) =>
            GateError(1).kind = "warning: Could not read config file"

C13_Witness ==
    /\ pc[1] = "check"
    /\ envPath = Override
    /\ ~Stat(fsFiles, Override)
    /\ Stat(fsFiles, Join(cwd, DefaultName))
    /\ found.called
    /\ found.path = Override


\* the directories of the chain of wd in which <dir>/<hint> exists
Hits(wd, hint) ==
    {k \in 1..Len(wd) + 1 : Stat(fsFiles, Join(Chain(wd)[k], hint))}

\* C14: without an override findConfigFile returns <dir>/<hint> for the
\* nearest directory of the chain working directory, parent, ..., root in
\* which it exists, and the working directory is the first one tested
C14_NearestAncestor ==
    found.called /\ envPath = <<>> =>
        \A k \in Hits(cwd, found.hint) :
            (\A j \in Hits(cwd, found.hint) : k <= j) =>
                /\ found.err = NoErr
                /\ found.path = Join(Chain(cwd)[k], found.hint)
                /\ probes[1] = Join(cwd, found.hint)

C14_Witness ==
    /\ found.called
    /\ envPath = <<>>
    /\ cwd = DirAt(MaxDepth)
    /\ found.hint = AltName
    /\ Hits(cwd, AltName) = {2, MaxDepth + 1}
    /\ found.path = Join(Dir(cwd), AltName)

\* C15: without an override and with no <dir>/<hint> on the chain, the walk
\* hands every directory of the chain to os.Stat exactly once, the root
\* last, and findConfigFile returns the not-found error
C15_WalkReachesRoot ==
    found.called /\ envPath = <<>> /\ Hits(cwd, found.hint) = {} =>
        /\ found.err.kind = "not found in any parent directory"
        /\ found.path = <<>>
        /\ probes = [k \in 1..Len(cwd) + 1 |-> Join(Chain(cwd)[k], found.hint)]

C15_Witness ==
    /\ found.called
    /\ envPath = <<>>
    /\ cwd = DirAt(MaxDepth)
    /\ Hits(cwd, found.hint) = {}
    /\ found.err # NoErr
    /\ Len(probes) = MaxDepth + 1
    /\ probes[Len(probes)] = found.hint


\* C16: in depcheck.go and part_000, once the gate is done (prepare returned
\* or panicked), no step of any call writes compiledRules or
\* compiledIgnorePatterns, however the calls interleave
C16_CompiledStateFrozen ==
    [][(variant \in {"depcheck", "part_000"} /\ onceDone = 1) =>
            (UNCHANGED <<compiledRules, compiledIgnorePatterns>>)]_vars

C16_Witness ==
    /\ variant \in {"depcheck", "part_000"}
    /\ onceDone = 1
    /\ compiledRules.elems # <<>>
    /\ \A c \in Calls : Evaluated(c)
    /\ \A c \in Calls : rulesRead[c] = compiledRules


(***************************************************************************)
(* The revision part_002: run calls prepare itself, with no gate. prepare  *)
(* reads DEPCHECK_CONFIG or rules.yml in the working directory, only       *)
(* prints a warning when the file cannot be read or parsed, and rebuilds   *)
(* the package variable compiledRules. The rule type and the loops of run  *)
(* are those of depcheck.go. Calls interleave at the statements that read  *)
(* or write compiledRules; the accesses are not synchronised.              *)
(***************************************************************************)
RuleShape == "depcheck"

\* the import specs of a pass that `for file / for spec` visits, in order
Edges(p) ==
    Flatten([f \in 1..Len(p.files) |->
                [i \in 1..Len(p.files[f].imports) |-> <<f, i>>]])

\* the import reaches `for _, rule := range compiledRules`
Ranges(spec) == Unquote(spec.path).ok /\ ~hasExceptionComment(RuleShape, spec)

\* one iteration of `for _, spec := range file.Imports` in part_002
ImportBody(rules, p, f, i) ==
    LET spec == p.files[f].imports[i] IN
    IF ~Ranges(spec) THEN <<>>
    ELSE RuleLoop(RuleShape, rules, <<>>, p.pkgpath, Base(p.files[f].name),
                  Unquote(spec.path).s, f, i)

\* run is called and enters prepare
Run2(c, p) ==
    /\ ~crashed
    /\ pc[c] = "start"
    /\ pc' = [pc EXCEPT ![c] = "prepare2"]
    /\ pass' = [pass EXCEPT ![c] = p]
    /\ prepareCalls' = prepareCalls + 1
    /\ UNCHANGED <<found, probes, marked, seen, variant, envPath, cwd,
                   fsFiles, compiledRules, compiledIgnorePatterns, onceDone,
                   onceM, onceValid, onceP, onceResult, initError, config,
                   idx, ret, reports, rulesRead, crashed>>

\* prepare (part_002): read and parse the config; on an error return with
\* compiledRules as it is, else allocate compiledRules anew
Prepare2Load(c) ==
    /\ ~crashed
    /\ pc[c] = "prepare2"
    /\ LET configPath == IF envPath # <<>> THEN envPath ELSE Join(cwd, AltName)
           read == ReadFile(fsFiles, configPath)
           parsed == Unmarshal(RuleShape, read.data)
       IN  IF read.err # NoErr \/ parsed.err # NoErr
           THEN /\ pc' = [pc EXCEPT ![c] = "eval2"]
                /\ UNCHANGED <<compiledRules, config>>
           ELSE /\ compiledRules' = Make
                /\ config' = [config EXCEPT ![c] = parsed.config]
                /\ pc' = [pc EXCEPT ![c] = "compile2"]
    /\ idx' = [idx EXCEPT ![c] = 1]
    /\ UNCHANGED <<found, probes, marked, seen, variant, envPath, cwd,
                   fsFiles, compiledIgnorePatterns, onceDone, onceM,
                   onceValid, onceP, onceResult, pass, initError, ret,
                   reports, rulesRead, prepareCalls, crashed>>

\* prepare (part_002): one iteration of the rule loop, which appends to the
\* package variable, or its end; a malformed pattern panics out of run
Prepare2Compile(c) ==
    /\ ~crashed
    /\ pc[c] = "compile2"
    /\ LET rules == config[c].rules IN
       IF idx[c] > Len(rules)
       THEN /\ pc' = [pc EXCEPT ![c] = "eval2"]
            /\ idx' = [idx EXCEPT ![c] = 1]
            /\ UNCHANGED <<compiledRules, ret>>
       ELSE IF MustCompilePanics(RuleShape, rules[idx[c]])
            THEN /\ pc' = [pc EXCEPT ![c] = "panicked"]
                 /\ ret' = [ret EXCEPT ![c] =
                        RetPanic(Err("regexp: Compile",
                                     FirstBad(RuleShape, rules[idx[c]])))]
                 /\ UNCHANGED <<compiledRules, idx>>
            ELSE /\ compiledRules' =
                        AppendSlice(compiledRules,
                                    CompiledRule(RuleShape, rules[idx[c]]))
                 /\ idx' = [idx EXCEPT ![c] = idx[c] + 1]
                 /\ UNCHANGED <<pc, ret>>
    /\ UNCHANGED <<found, probes, marked, seen, variant, envPath, cwd,
                   fsFiles, compiledIgnorePatterns, onceDone, onceM,
                   onceValid, onceP, onceResult, pass, initError, config,
                   reports, rulesRead, prepareCalls, crashed>>

\* run (part_002): one import spec, whose rule loop ranges over the value
\* compiledRules has at that moment; after the last one, return nil, nil
EvalImport2(c) ==
    /\ ~crashed
    /\ pc[c] = "eval2"
    /\ LET edges == Edges(pass[c]) IN
       IF idx[c] > Len(edges)
       THEN /\ pc' = [pc EXCEPT ![c] = "done"]
            /\ ret' = [ret EXCEPT ![c] = RetNil]
            /\ UNCHANGED <<idx, reports, seen>>
       ELSE LET f == edges[idx[c]][1]
                i == edges[idx[c]][2]
            IN  /\ reports' = [reports EXCEPT ![c] =
                        reports[c] \o ImportBody(compiledRules.elems, pass[c], f, i)]
                /\ seen' = [seen EXCEPT ![c] =
                        IF Ranges(pass[c].files[f].imports[i])
                        THEN Append(seen[c], compiledRules)
                        ELSE seen[c]]
                /\ idx' = [idx EXCEPT ![c] = idx[c] + 1]
                /\ UNCHANGED <<pc, ret>>
    /\ UNCHANGED <<found, probes, marked, variant, envPath, cwd, fsFiles,
                   compiledRules, compiledIgnorePatterns, onceDone, onceM,
                   onceValid, onceP, onceResult, pass, initError, config,
                   rulesRead, prepareCalls, crashed>>

RaceDocs ==
    { Doc(<<>>, rules) :
        rules \in SeqsUpTo({GoodRule, [GoodRule EXCEPT !.from = BadPattern]},
                           MaxRules) }

RacePasses ==
    { Pass("app/domain/user",
           <<File("user.go",
                  <<Import("app/infra/db", NilGroup, NilGroup),
                    Import("app/infra/logger", Group(<<AllowReason>>), NilGroup),
                    Import("app/infra/cache", NilGroup, NilGroup)>>)>>) }

RaceFileSystems ==
    { [q \in FindPaths |-> NoFile] }
    \cup { [q \in FindPaths |-> IF q = at THEN content ELSE NoFile] :
            at \in {Join(DirAt(MaxDepth), AltName), Override},
            content \in {Unreadable, Garbage} \cup {Yaml(d) : d \in RaceDocs} }

InitRace ==
    /\ variant = "part_002"
    /\ envPath \in {<<>>, Override}
    /\ cwd = DirAt(MaxDepth)
    /\ fsFiles \in RaceFileSystems
    /\ InitProcess

NextRace ==
    \/ \E c \in Calls, p \in RacePasses : Run2(c, p)
    \/ \E c \in Calls : Prepare2Load(c)
    \/ \E c \in Calls : Prepare2Compile(c)
    \/ \E c \in Calls : EvalImport2(c)
    \/ Crash

RaceSpec == InitRace /\ [][NextRace]_vars

\* at most one call ever entered prepare
OnePrepare == prepareCalls <= 1

\* no call is between the allocation and the last append of prepare while
\* another call is between two of its rule loops
NoWriteWhileIterating ==
    \A c, d \in Calls :
        c # d /\ pc[c] = "compile2" => ~(pc[d] = "eval2" /\ seen[d] # <<>>)

\* the rule loops of one call all ranged over the same rule set
StableRuleSet ==
    \A c \in Calls : \A j, k \in 1..Len(seen[c]) : seen[c][j] = seen[c][k]

\* C17: in part_002 at most one call performs the config read and the
\* compilation, no call writes compiledRules while another one iterates
\* over it, and the rule set a call evaluates does not change during its
\* evaluation
C17_SingleInitializer ==
    variant = "part_002" =>
        OnePrepare /\ NoWriteWhileIterating /\ StableRuleSet


(***************************************************************************)
(* hasExceptionComment on its own, applied to import specs with any doc    *)
(* comment group of up to MaxComments comments.                            *)
(***************************************************************************)
AllowGlued == <<"//", " ", "depcheck:allow", "ed">>
AllowNoSpace == <<"//", "depcheck:allow">>
AllowTwoSpaces == <<"//", " ", " ", "depcheck:allow">>
AllowBlock == <<"/*", " ", "depcheck:allow", " ", "*/">>
NoteAllow == <<"//", " ", "note", " ", "depcheck:allow">>

CommentTexts ==
    {AllowComment, AllowReason, AllowGlued, AllowNoSpace, AllowTwoSpaces,
     AllowBlock, NoteAllow, NoteComment}

CommentSpecs ==
    { Import("app/infra/db", doc, comment) :
        doc \in {NilGroup} \cup {Group(l) : l \in SeqsUpTo(CommentTexts, MaxComments)},
        comment \in {NilGroup, Group(<<AllowComment>>)} }

\* hasExceptionComment(spec) is called
Mark(spec) ==
    /\ marked' = [called |-> TRUE, spec |-> spec,
                  result |-> hasExceptionComment(variant, spec)]
    /\ UNCHANGED <<found, probes, seen, variant, envPath, cwd, fsFiles,
                   compiledRules, compiledIgnorePatterns, onceDone, onceM,
                   onceValid, onceP, onceResult, pc, pass, initError, config,
                   idx, ret, reports, rulesRead, prepareCalls, crashed>>

InitComment ==
    /\ variant \in Variants
    /\ envPath = <<>>
    /\ cwd = <<>>
    /\ fsFiles = [q \in KnownPaths |-> NoFile]
    /\ InitProcess

NextComment == \E spec \in CommentSpecs : Mark(spec)

CommentSpec == InitComment /\ [][NextComment]_vars

\* the comment's text begins with "// depcheck:allow"
BeginsWithToken(c) ==
    Len(c) >= 3 /\ c[1] = "//" /\ c[2] = " " /\ c[3] = "depcheck:allow"

\* C18: in depcheck.go hasExceptionComment returns true exactly for the
\* import specs that have a doc comment group with at least one comment,
\* at any position, whose text begins with "// depcheck:allow", whatever
\* follows the token; with no doc group or no such comment it returns false
C18_DocCommentPrefix ==
    marked.called /\ variant = "depcheck" =>
        (marked.result <=>
            /\ ~marked.spec.doc.isNil
            /\ \E k \in 1..Len(marked.spec.doc.list) :
                    BeginsWithToken(marked.spec.doc.list[k]))

C18_Witness ==
    /\ marked.called
    /\ variant = "depcheck"
    /\ marked.result
    /\ marked.spec.doc = Group(<<NoteComment, AllowGlued>>)


\* The documented priority order (README, Pattern Matching Priority) applied
\* to import i of file f and rule r: global ignore patterns, rule-specific
\* ignore patterns, the from pattern, allowed dependencies, to patterns.
RefDecision(r, f, i) ==
    IF MatchesAny(Ignores, Base(TheFile(f).name)) THEN "ignored"
    ELSE IF MatchesAny(Rules[r].ignorePatterns, Base(TheFile(f).name)) THEN "ignored"
    ELSE IF pass[1].pkgpath \notin Lang(Rules[r].from.expr) THEN "other package"
    ELSE IF MatchesAny(Rules[r].allowedDependencies, ImportPath(f, i)) THEN "allowed"
    ELSE IF MatchesAny(Rules[r].to, ImportPath(f, i)) THEN "restricted"
    ELSE "free"

\* the reports of the reference evaluator for the pass of call 1
RefReports ==
    { Report(f, i, ImportPath(f, i), r) :
        <<f, i, r>> \in
            { t \in FilesOf \X (1..MaxImports) \X (1..Len(Rules)) :
                /\ t[2] \in ImportsOf(t[1])
                /\ Unquote(TheImport(t[1], t[2]).path).ok
                /\ ~Exempt(t[1], t[2])
                /\ RefDecision(t[3], t[1], t[2]) = "restricted" } }

ReportSet == {reports[1][k] : k \in 1..Len(reports[1])}

\* C19: in part_000 the set of reports of run is the set the reference
\* evaluator produces with the documented priority order, for every
\* importer, file name, imports and compiled state
C19_PriorityOrderEquivalent ==
    variant = "part_000" /\ Returned(1) => ReportSet = RefReports

\* the order matters to the decision path: a file ignored by a global or a
\* rule-specific pattern meets a rule whose from pattern does not match,
\* while another rule reports
C19_Witness ==
    /\ variant = "part_000"
    /\ Returned(1)
    /\ \E f \in FilesOf : \E i \in ImportsOf(f) : \E r \in 1..Len(Rules) :
        /\ RefDecision(r, f, i) = "ignored"
        /\ pass[1].pkgpath \notin Lang(Rules[r].from.expr)
    /\ ReportSet # {}


(***************************************************************************)
(* Rules without to patterns.                                              *)
(***************************************************************************)
HasTo(rule) == rule.to # <<>>

\* the compiled rules without the rules that have no to pattern, and the
\* position rule r has among them
RulesWithTo == SelectSeq(Rules, HasTo)
PositionWithTo(r) == Cardinality({q \in 1..r : HasTo(Rules[q])})

\* C20: a rule whose to list is empty makes no report, and the reports of
\* the other rules are those the document makes without that rule
C20_EmptyToIsNoOp ==
    Returned(1) =>
        /\ \A k \in 1..Len(reports[1]) : HasTo(Rules[reports[1][k].rule])
        /\ [k \in 1..Len(reports[1]) |->
                [reports[1][k] EXCEPT !.rule = PositionWithTo(reports[1][k].rule)]]
           = runLoop(variant, RulesWithTo, Ignores, pass[1])

\* a rule without to patterns that applies to the importer comes first, and
\* the rule after it reports
C20_Witness ==
    /\ Returned(1)
    /\ Len(Rules) = 2
    /\ ~HasTo(Rules[1])
    /\ pass[1].pkgpath \in Lang(Rules[1].from.expr)
    /\ \E k \in 1..Len(reports[1]) : reports[1][k].rule = 2


(***************************************************************************)
(* Progress of the calls of depcheck.go.  The host framework runs every    *)
(* call of run on a goroutine of its own; the Go scheduler lets a          *)
(* goroutine that can take a step take it, and sync.Mutex hands the gate   *)
(* to a waiting goroutine once it is free, which it stays from the moment  *)
(* prepare is over.  No fairness is assumed for the host calling run or    *)
(* for the process dying of a panic.                                       *)
(***************************************************************************)
\* a step of call c inside run
Step(c) ==
    \/ DoFast(c)
    \/ DoSlow(c)
    \/ PrepareLoad(c)
    \/ CompileRules(c)
    \/ Check(c)
    \/ Eval(c)

InitLive == Init /\ variant = "depcheck"

NextLive ==
    \/ \E c \in Calls, p \in GatePasses : Call(c, p)
    \/ \E c \in Calls : Step(c)
    \/ Crash

LiveSpec ==
    InitLive /\ [][NextLive]_vars /\ \A c \in Calls : WF_vars(Step(c))

\* run has been called for c
Called(c) == pc[c] # "start"

\* C21: in depcheck.go, under fair scheduling, every call of run that was
\* made eventually returns, however many calls run concurrently
C21_EveryCallReturns ==
    \A c \in Calls : Called(c) ~> Returned(c)


(***************************************************************************)
(* The frame of a failed prepare.                                          *)
(***************************************************************************)
\* prepare was run by call c and returned the error of the config search,
\* read or parse
LoadFailed(c) ==
    /\ Loaded.err # NoErr
    /\ pc[c] \in {"check", "done"}
    /\ prepareCalls = 1
    /\ onceDone = 1
    /\ GateError(c) = Loaded.err

\* C22: when the config cannot be located, read or parsed, prepare leaves
\* compiledRules and compiledIgnorePatterns as they were before the call:
\* nil, in every state of the process
C22_FailedPrepareTouchesNothing ==
    Loaded.err # NoErr =>
        compiledRules = NilSlice /\ compiledIgnorePatterns = NilSlice

\* a parse failure that prepare has returned to a call in part_000
C22_Witness ==
    /\ variant = "part_000"
    /\ Loaded.err.kind = "warning: Could not parse config file"
    /\ \E c \in Calls : LoadFailed(c) /\ ret[c] = RetErr(Loaded.err)
    /\ compiledRules = NilSlice
    /\ compiledIgnorePatterns = NilSlice

====
